---- MODULE Spec2Model ----
(***************************************************************************)
(* Order / stock reservation and settlement engine of the shop.            *)
(*                                                                         *)
(* The database is PostgreSQL at READ COMMITTED.  Every SQL statement is   *)
(* one atomic step that reads the committed rows.  A transaction's writes  *)
(* are kept beside the committed rows (cardNew, orderNew) together with    *)
(* the row lock (cardLock, orderLock) and become the committed rows when   *)
(* the transaction commits.  A plain UPDATE whose WHERE matches a row that *)
(* another transaction has locked waits (the step is not enabled) and      *)
(* re-evaluates its WHERE on the row committed by the lock holder; a       *)
(* sub-select FOR UPDATE SKIP LOCKED passes over locked rows.  NOW() is    *)
(* the start time of the transaction.  Time is counted in minutes; the     *)
(* clock is read at the instants of Instants.  Every process is one call   *)
(* of createOrder, of the notify endpoint or of cancelExpiredOrders.       *)
(***************************************************************************)
EXTENDS Integers, FiniteSets, Sequences, TLC

\* ------------------------------------------------------------ bounds
MaxTime == 6
MaxOrders == 4
NumUnits == 2
MaxLimit == 2

\* ------------------------------------------------- program constants
HOLD_TTL == 1
PENDING_TTL == 5
\* the amount epsilon 0.01, amounts being counted in thousandths
EPSILON == 10

\* ------------------------------------------------------ the universe
Buyers == {"b1", "b2", "b3"}
Settlers == {"s1", "s2"}
Reapers == {"r1"}
Procs == Buyers \cup Settlers \cup Reapers

Units == 1..NumUnits
\* the instants at which the clock is read: both sides of the two deadlines
Instants == {0, HOLD_TTL, HOLD_TTL + 1} \cup ((PENDING_TTL + 1)..MaxTime)
OrderIds == 1..MaxOrders
Users == {"alice"}
\* no session (user?.id undefined), no email argument
Guest == ""
NoEmail == ""
\* user?.email of the session
UserEmail(userId) == IF userId = "alice" THEN "a@x" ELSE NoEmail

NoOrder == 0
NoTime == -1
NoKey == 0
NoProc == "-"
NaN == -1

\* the catalog: read-only to the engine
ProductIds == {"p1"}
UnknownProduct == "px"
Price(productId) == 1000
CardProduct(u) == "p1"
\* the secret payload of a card; the unique index (product_id, card_key)
\* makes it identify the card
CardKey(u) == u

MERCHANT_KEY == "key"

VARIABLES now, products, cards, cardNew, cardLock, orders, orderNew, orderLock, proc

vars == <<now, products, cards, cardNew, cardLock, orders, orderNew, orderLock, proc>>
db == <<products, cards, orders>>
tx == <<cardNew, cardLock, orderNew, orderLock>>

\* ------------------------------------------------------------- rows
\* a row of cards: is_used, reserved_order_id, reserved_at; usedFor is a
\* history field: the order whose settlement consumed the card
FreeCard == [isUsed |-> FALSE, reservedOrderId |-> NoOrder, reservedAt |-> NoTime,
             usedFor |-> NoOrder]

NoRow == [status |-> "none", productId |-> "", amount |-> 0, userId |-> "",
          email |-> "", createdAt |-> NoTime, cardKey |-> NoKey]

\* a row of products: purchase_limit (0 for NULL), is_active
Product == [purchaseLimit |-> 0, isActive |-> TRUE]

NoFilter == [productId |-> "", userId |-> "", orderId |-> NoOrder]

NoNote == [trade_status |-> "", out_trade_no |-> NoOrder, money |-> 0, param |-> "",
           sign |-> ""]

IdleProc == [pc |-> "idle", productId |-> "", userId |-> "", email |-> "",
             filter |-> NoFilter,
             orderId |-> NoOrder, txNow |-> NoTime, todo |-> <<>>, cancelled |-> {},
             cardKey |-> NoKey, n |-> NoNote, result |-> "none"]

\* a process that makes no call
OffProc == [IdleProc EXCEPT !.pc = "off"]

\* The shop after the cards of the product were imported: k free cards, no
\* order.  The processes of `active` will each make one call.
InitWith(active, maxCards) ==
    /\ now = 0
    /\ products = [x \in ProductIds |-> Product]
    /\ \E k \in 1..maxCards :
          /\ cards = [u \in 1..k |-> FreeCard]
          /\ cardNew = [u \in 1..k |-> FreeCard]
          /\ cardLock = [u \in 1..k |-> NoProc]
    /\ orders = [o \in OrderIds |-> NoRow]
    /\ orderNew = [o \in OrderIds |-> NoRow]
    /\ orderLock = [o \in OrderIds |-> NoProc]
    /\ proc = [p \in Procs |-> IF p \in active THEN IdleProc ELSE OffProc]

Init == InitWith({"b1", "b2", "s1", "s2"}, NumUnits)

\* ------------------------------------------------------ transactions
\* The rows after transaction p commits: its pending versions replace the
\* committed ones and its locks are released.
Commit(p) ==
    /\ UNCHANGED products
    /\ cards' = [u \in DOMAIN cards |-> IF cardLock[u] = p THEN cardNew[u] ELSE cards[u]]
    /\ UNCHANGED <<cardNew, orderNew>>
    /\ cardLock' = [u \in DOMAIN cards |-> IF cardLock[u] = p THEN NoProc ELSE cardLock[u]]
    /\ orders' = [o \in OrderIds |-> IF orderLock[o] = p THEN orderNew[o] ELSE orders[o]]
    /\ orderLock' = [o \in OrderIds |-> IF orderLock[o] = p THEN NoProc ELSE orderLock[o]]

\* The rows after transaction p rolls back.
Rollback(p) ==
    /\ cardNew' = [u \in DOMAIN cards |-> IF cardLock[u] = p THEN cards[u] ELSE cardNew[u]]
    /\ cardLock' = [u \in DOMAIN cards |-> IF cardLock[u] = p THEN NoProc ELSE cardLock[u]]
    /\ orderNew' = [o \in OrderIds |-> IF orderLock[o] = p THEN orders[o] ELSE orderNew[o]]
    /\ orderLock' = [o \in OrderIds |-> IF orderLock[o] = p THEN NoProc ELSE orderLock[o]]
    /\ UNCHANGED db

FreeOfOthers(lock, p) == lock = NoProc \/ lock = p

\* The row of card u as transaction p sees it: its own pending version, or
\* the committed one.
CardView(p, u) == IF cardLock[u] = p THEN cardNew[u] ELSE cards[u]
OrderView(p, o) == IF orderLock[o] = p THEN orderNew[o] ELSE orders[o]

Perms(S) ==
    {s \in [1..Cardinality(S) -> S] : \A i, j \in 1..Cardinality(S) : s[i] = s[j] => i = j}

\* ------------------------------------------------------------- clock
Tick ==
    /\ \E t \in Instants : t > now /\ now' = t
    /\ UNCHANGED <<db, tx, proc>>

\* ------------------------------------------------------ Expiry Reaper
\* cancelExpiredOrders(filters), run by a caller of its own (Reapers) or
\* inside createOrder (Buyers).

\* the WHERE with HOLD_TTL in the place of PENDING_TTL
ExpiredMatchHoldTtl(o, row, f, t) ==
    /\ row.status = "pending"
    /\ row.createdAt # NoTime
    /\ row.createdAt <= t - HOLD_TTL
    /\ (f.productId = "" \/ row.productId = f.productId)
    /\ (f.userId = "" \/ row.userId = f.userId)
    /\ (f.orderId = NoOrder \/ o = f.orderId)

\* the WHERE with the comparison of created_at turned around
ExpiredMatchYoung(o, row, f, t) ==
    /\ row.status = "pending"
    /\ row.createdAt # NoTime
    /\ row.createdAt > t - PENDING_TTL
    /\ (f.productId = "" \/ row.productId = f.productId)
    /\ (f.userId = "" \/ row.userId = f.userId)
    /\ (f.orderId = NoOrder \/ o = f.orderId)

\* the WHERE without the condition on user_id
ExpiredMatchAnyUser(o, row, f, t) ==
    /\ row.status = "pending"
    /\ row.createdAt # NoTime
    /\ row.createdAt < t - PENDING_TTL
    /\ (f.productId = "" \/ row.productId = f.productId)
    /\ (f.orderId = NoOrder \/ o = f.orderId)

\* WHERE of the expiry UPDATE on orders
ExpiredMatch(o, row, f, t) ==
    /\ row.status = "pending"
    /\ row.createdAt # NoTime
    /\ row.createdAt < t - PENDING_TTL
    /\ (f.productId = "" \/ row.productId = f.productId)
    /\ (f.userId = "" \/ row.userId = f.userId)
    /\ (f.orderId = NoOrder \/ o = f.orderId)

\* the release of every hold, whatever order it names
ReleaseRowAnyOrder(u, c, oid) ==
    IF c.reservedOrderId # NoOrder /\ ~c.isUsed
    THEN [c EXCEPT !.reservedOrderId = NoOrder, !.reservedAt = NoTime]
    ELSE c

\* the release without its WHERE clause: every card is reset
ReleaseRowAll(u, c, oid) == FreeCard

\* UPDATE cards SET reserved_order_id = NULL, reserved_at = NULL
\* WHERE reserved_order_id = oid AND COALESCE(is_used, false) = false,
\* as the new value of one row
ReleaseRow(u, c, oid) ==
    IF c.reservedOrderId = oid /\ ~c.isUsed
    THEN [c EXCEPT !.reservedOrderId = NoOrder, !.reservedAt = NoTime]
    ELSE c

\* what the caller continues with when cancelExpiredOrders returns or throws
AfterReap(p, res) ==
    IF p \in Buyers
    THEN [proc[p] EXCEPT !.pc = "stock", !.txNow = NoTime, !.todo = <<>>,
                         !.cancelled = {}, !.filter = NoFilter]
    ELSE [IdleProc EXCEPT !.pc = "done", !.result = res, !.cancelled = proc[p].cancelled]

Filters ==
    {NoFilter}
    \cup {[NoFilter EXCEPT !.productId = x] : x \in ProductIds}
    \cup {[NoFilter EXCEPT !.userId = x] : x \in Users}
    \cup {[NoFilter EXCEPT !.orderId = x] : x \in OrderIds}

ReapStart(p, f) ==
    /\ p \in Reapers
    /\ proc[p].pc = "idle"
    /\ proc' = [proc EXCEPT ![p] =
          [IdleProc EXCEPT !.pc = "reap_cancel", !.filter = f, !.txNow = now]]
    /\ UNCHANGED <<now, db, tx>>

ReapCancel(p) ==
    LET M == {o \in OrderIds : ExpiredMatch(o, orders[o], proc[p].filter, proc[p].txNow)}
    IN  /\ proc[p].pc = "reap_cancel"
        /\ \A o \in M : FreeOfOthers(orderLock[o], p)
        /\ IF M = {}
           THEN /\ proc' = [proc EXCEPT ![p] = AfterReap(p, "ok")]
                /\ UNCHANGED tx
           ELSE /\ \E s \in Perms(M) :
                      proc' = [proc EXCEPT ![p].pc = "reap_alter", ![p].todo = s,
                                           ![p].cancelled = M]
                /\ orderNew' = [o \in OrderIds |->
                       IF o \in M THEN [orders[o] EXCEPT !.status = "cancelled"]
                       ELSE orderNew[o]]
                /\ orderLock' = [o \in OrderIds |-> IF o \in M THEN p ELSE orderLock[o]]
                /\ UNCHANGED <<cardNew, cardLock>>
        /\ UNCHANGED <<now, db>>

\* The table locks on cards.  A transaction that has run an UPDATE on cards
\* holds ROW EXCLUSIVE on the table to its end; ALTER TABLE takes ACCESS
\* EXCLUSIVE, which waits for every other lock on the table and, once
\* granted, makes every other statement on the table wait for the commit.
HoldsCards(q) ==
    proc[q].pc \in {"insert", "settle_fallback", "settle_order", "reap_release"}

CardsAltered(p) == \E q \in Procs \ {p} : proc[q].pc = "reap_release"

\* ALTER TABLE cards ADD COLUMN IF NOT EXISTS ..., run when an order was
\* cancelled
ReapAlter(p) ==
    /\ proc[p].pc = "reap_alter"
    /\ \A q \in Procs \ {p} : ~HoldsCards(q)
    /\ proc' = [proc EXCEPT ![p].pc = "reap_release"]
    /\ UNCHANGED <<now, db, tx>>

ReapRelease(p) ==
    /\ proc[p].pc = "reap_release"
    /\ proc[p].todo # <<>>
    /\ LET oid == Head(proc[p].todo)
           R == {u \in DOMAIN cards : ReleaseRow(u, CardView(p, u), oid) # CardView(p, u)}
       IN  /\ \A u \in R : FreeOfOthers(cardLock[u], p)
           /\ cardNew' = [u \in DOMAIN cards |->
                  IF u \in R THEN ReleaseRow(u, CardView(p, u), oid) ELSE cardNew[u]]
           /\ cardLock' = [u \in DOMAIN cards |-> IF u \in R THEN p ELSE cardLock[u]]
    /\ proc' = [proc EXCEPT ![p].todo = Tail(proc[p].todo)]
    /\ UNCHANGED <<now, db, orderNew, orderLock>>

ReapCommit(p) ==
    /\ proc[p].pc = "reap_release"
    /\ proc[p].todo = <<>>
    /\ Commit(p)
    /\ proc' = [proc EXCEPT ![p] = AfterReap(p, "ok")]
    /\ UNCHANGED now

\* ---------------------------------------------------------- createOrder
\* the condition without is_used
EligibleUsedToo(u, c, productId, t) ==
    /\ CardProduct(u) = productId
    /\ (c.reservedAt = NoTime \/ c.reservedAt < t - HOLD_TTL)

\* the condition without the hold
EligibleNoHold(u, c, productId, t) ==
    /\ CardProduct(u) = productId
    /\ ~c.isUsed

\* WHERE of the stock count and of the claim sub-select: an unconsumed
\* card with no hold or a hold older than one minute at time t
Eligible(u, c, productId, t) ==
    /\ CardProduct(u) = productId
    /\ ~c.isUsed
    /\ (c.reservedAt = NoTime \/ c.reservedAt < t - HOLD_TTL)

getAvailableStock(productId) ==
    Cardinality({u \in DOMAIN cards : Eligible(u, cards[u], productId, now)})

\* the sub-select without FOR UPDATE SKIP LOCKED
ClaimableNoSkip(p, productId, t) ==
    {u \in DOMAIN cards : Eligible(u, cards[u], productId, t)}

\* the rows the sub-select ... LIMIT 1 FOR UPDATE SKIP LOCKED can return
Claimable(p, productId, t) ==
    {u \in DOMAIN cards : /\ Eligible(u, cards[u], productId, t)
                   /\ cardLock[u] = NoProc}

\* generateOrderId(): an id no order and no hold carries
FreshIds ==
    {o \in OrderIds : /\ orders[o].status = "none"
                      /\ orderLock[o] = NoProc
                      /\ \A q \in Procs : proc[q].orderId # o}

CreateOrderStart(p, productId, userId, email) ==
    /\ p \in Buyers
    /\ proc[p].pc = "idle"
    /\ IF productId \notin ProductIds
       THEN proc' = [proc EXCEPT ![p] = [IdleProc EXCEPT !.pc = "done", !.result = "productNotFound"]]
       ELSE proc' = [proc EXCEPT ![p] =
                [IdleProc EXCEPT !.pc = "reap_cancel", !.productId = productId,
                                 !.userId = userId, !.email = email, !.txNow = now,
                                 !.filter = [NoFilter EXCEPT !.productId = productId]]]
    /\ UNCHANGED <<now, db, tx>>

\* const currentUserEmail = email || user?.email
currentUserEmail(p) ==
    IF proc[p].email # NoEmail THEN proc[p].email ELSE UserEmail(proc[p].userId)

\* product.purchaseLimit > 0 and the buyer has a user id or an email
LimitApplies(p) ==
    /\ products[proc[p].productId].purchaseLimit > 0
    /\ (proc[p].userId # Guest \/ currentUserEmail(p) # NoEmail)

CreateOrderStock(p) ==
    /\ proc[p].pc = "stock"
    /\ ~CardsAltered(p)
    /\ IF getAvailableStock(proc[p].productId) <= 0
       THEN proc' = [proc EXCEPT ![p] = [IdleProc EXCEPT !.pc = "done", !.result = "outOfStock"]]
       ELSE proc' = [proc EXCEPT ![p].pc = IF LimitApplies(p) THEN "limit" ELSE "reserve"]
    /\ UNCHANGED <<now, db, tx>>

\* the count keyed by the email when the call has one, by the user id
\* otherwise
LimitMatchEmailFirst(row, productId, userId, email) ==
    /\ row.productId = productId
    /\ IF email # NoEmail THEN row.email = email
       ELSE userId # Guest /\ row.userId = userId
    /\ (row.status = "paid" \/ row.status = "delivered")

\* the count that takes every order of the buyer, whatever its status
LimitMatchAnyStatus(row, productId, userId, email) ==
    /\ row.productId = productId
    /\ \/ (userId # Guest /\ row.userId = userId)
       \/ (email # NoEmail /\ row.email = email)
    /\ row.status # "none"

\* eq(orders.productId, productId) AND (user_id = id OR email = email in
\* use) AND (status = 'paid' OR status = 'delivered')
LimitMatch(row, productId, userId, email) ==
    /\ row.productId = productId
    /\ \/ (userId # Guest /\ row.userId = userId)
       \/ (email # NoEmail /\ row.email = email)
    /\ (row.status = "paid" \/ row.status = "delivered")

\* the purchase-limit count and its comparison
CreateOrderLimit(p) ==
    /\ proc[p].pc = "limit"
    /\ LET existingCount ==
             Cardinality({o \in OrderIds :
                 LimitMatch(orders[o], proc[p].productId, proc[p].userId,
                            currentUserEmail(p))})
       IN  IF existingCount >= products[proc[p].productId].purchaseLimit
           THEN proc' = [proc EXCEPT ![p] =
                    [IdleProc EXCEPT !.pc = "done", !.result = "limitExceeded",
                                     !.productId = proc[p].productId,
                                     !.userId = proc[p].userId, !.email = proc[p].email]]
           ELSE proc' = [proc EXCEPT ![p].pc = "reserve"]
    /\ UNCHANGED <<now, db, tx>>

\* the SET without reserved_at
ReserveWriteNoStamp(c, oid, t) == [c EXCEPT !.reservedOrderId = oid]

\* SET reserved_order_id = orderId, reserved_at = NOW()
ReserveWrite(c, oid, t) == [c EXCEPT !.reservedOrderId = oid, !.reservedAt = t]

\* the claim without LIMIT 1: every card the sub-select finds is reserved
CreateOrderReserveAll(p) ==
    /\ proc[p].pc = "reserve"
    /\ ~CardsAltered(p)
    /\ LET E == Claimable(p, proc[p].productId, now)
       IN  IF E = {}
           THEN /\ proc' = [proc EXCEPT ![p] = [IdleProc EXCEPT !.pc = "done", !.result = "stockLocked"]]
                /\ UNCHANGED tx
           ELSE \E oid \in FreshIds :
                /\ \A o \in FreshIds : oid <= o
                /\ cardNew' = [u \in DOMAIN cards |->
                       IF u \in E THEN ReserveWrite(cards[u], oid, now) ELSE cardNew[u]]
                /\ cardLock' = [u \in DOMAIN cards |-> IF u \in E THEN p ELSE cardLock[u]]
                /\ proc' = [proc EXCEPT ![p].pc = "insert", ![p].orderId = oid,
                                        ![p].txNow = now]
                /\ UNCHANGED <<orderNew, orderLock>>
    /\ UNCHANGED <<now, db>>

\* the claim: UPDATE cards ... WHERE id = (SELECT id ... LIMIT 1 FOR UPDATE
\* SKIP LOCKED)
CreateOrderReserve(p) ==
    /\ proc[p].pc = "reserve"
    /\ ~CardsAltered(p)
    /\ LET E == Claimable(p, proc[p].productId, now)
       IN  IF E = {}
           THEN /\ proc' = [proc EXCEPT ![p] = [IdleProc EXCEPT !.pc = "done", !.result = "stockLocked"]]
                /\ UNCHANGED tx
           ELSE \E u \in E : \E oid \in FreshIds :
                /\ \A o \in FreshIds : oid <= o
                /\ cardNew' = [cardNew EXCEPT ![u] = ReserveWrite(cards[u], oid, now)]
                /\ cardLock' = [cardLock EXCEPT ![u] = p]
                /\ proc' = [proc EXCEPT ![p].pc = "insert", ![p].orderId = oid,
                                        ![p].txNow = now]
                /\ UNCHANGED <<orderNew, orderLock>>
    /\ UNCHANGED <<now, db>>

\* tx.insert(orders).values({... status: 'pending'}), created_at DEFAULT NOW()
NewOrder(p) ==
    [status |-> "pending", productId |-> proc[p].productId,
     amount |-> Price(proc[p].productId), userId |-> proc[p].userId,
     email |-> currentUserEmail(p), createdAt |-> proc[p].txNow, cardKey |-> NoKey]

\* the insert and the commit of the transaction
CreateOrderInsert(p) ==
    /\ proc[p].pc = "insert"
    /\ LET oid == proc[p].orderId
       IN  /\ cards' = [u \in DOMAIN cards |-> IF cardLock[u] = p THEN cardNew[u] ELSE cards[u]]
           /\ cardLock' = [u \in DOMAIN cards |-> IF cardLock[u] = p THEN NoProc ELSE cardLock[u]]
           /\ orders' = [orders EXCEPT ![oid] = NewOrder(p)]
           /\ orderNew' = [orderNew EXCEPT ![oid] = NewOrder(p)]
           /\ proc' = [proc EXCEPT ![p] = [IdleProc EXCEPT !.pc = "done", !.result = "ok", !.orderId = oid]]
    /\ UNCHANGED <<now, products, cardNew, orderLock>>

\* ---------------------------------------------------------------- settle
\* processNotify(params).  A notification carries trade_status,
\* out_trade_no, money, param (empty unless the merchant set it) and sign.

\* the string that is hashed: the fields other than sign and sign_type that
\* are not empty, sorted by name, then the key
SignedText(n, key) ==
    <<IF n.money = NaN THEN <<>> ELSE <<"money", n.money>>,
      <<"out_trade_no", n.out_trade_no>>,
      IF n.param = "" THEN <<>> ELSE <<"param", n.param>>,
      <<"trade_status", n.trade_status>>,
      key>>

\* the string over every field other than sign and sign_type, the empty ones
\* included (param=)
AllFieldsText(n, key) ==
    <<IF n.money = NaN THEN <<>> ELSE <<"money", n.money>>,
      <<"out_trade_no", n.out_trade_no>>,
      <<"param", n.param>>,
      <<"trade_status", n.trade_status>>,
      key>>

\* the amounts a notification can carry: the price, an amount within the
\* epsilon of it, a lower amount, and no number
MoneyValues == {Price("p1"), Price("p1") + 5, Price("p1") - 2 * EPSILON, NaN}

\* the notifications a caller of the endpoint can send: signed with the
\* merchant key, or carrying the signature the gateway made for the real
\* amount
Notifications ==
    {[trade_status |-> st, out_trade_no |-> o, money |-> m, param |-> "", sign |-> sg] :
        st \in {"TRADE_SUCCESS", "TRADE_CLOSED"}, o \in {1, 2, MaxOrders},
        m \in MoneyValues, sg \in {"merchant", "replayed"}}

\* notifications with param empty or set, signed by the gateway over the
\* fields that are not empty ("merchant"), signed over every field with the
\* merchant key ("full"), signed with another key ("forged"), or carrying
\* the gateway's signature of the real amount ("replayed")
SignNotifications ==
    {[trade_status |-> st, out_trade_no |-> o, money |-> m, param |-> x, sign |-> sg] :
        st \in {"TRADE_SUCCESS", "TRADE_CLOSED"}, o \in {1, MaxOrders},
        m \in {Price("p1"), Price("p1") - 2 * EPSILON}, x \in {"", "x"},
        sg \in {"merchant", "full", "forged", "replayed"}}

\* the notifications of the gateway for a payment of the real amount
PaidNotifications ==
    {n \in Notifications : /\ n.trade_status = "TRADE_SUCCESS"
                           /\ n.money = Price("p1")
                           /\ n.sign = "merchant"}

\* the signature a notification carries
SignOf(n) ==
    CASE n.sign = "merchant" -> SignedText(n, MERCHANT_KEY)
      [] n.sign = "full" -> AllFieldsText(n, MERCHANT_KEY)
      [] n.sign = "forged" -> SignedText(n, "other")
      [] OTHER -> SignedText([n EXCEPT !.money = Price("p1")], MERCHANT_KEY)

Abs(x) == IF x < 0 THEN 0 - x ELSE x

\* the comparison without Math.abs
AmountMismatchOneSided(money, amount) ==
    IF money = NaN THEN FALSE ELSE money - amount > EPSILON

\* Math.abs(notifyMoney - orderMoney) > 0.01 on floats.  A comparison with
\* NaN is false.  (No amount of MoneyValues is at exactly 0.01 of the price,
\* where the rounding of the floats decides.)
AmountMismatch(money, amount) ==
    IF money = NaN THEN FALSE ELSE Abs(money - amount) > EPSILON

\* the gates without the check of the order's status
GateNoStatus(n, order, rejected) ==
    IF SignOf(n) # SignedText(n, MERCHANT_KEY) THEN "fail"
    ELSE IF n.trade_status # "TRADE_SUCCESS" THEN "success"
    ELSE IF order.status = "none" THEN "success"
    ELSE IF rejected THEN "fail"
    ELSE "settle"

\* the gates without the check of the signature
GateNoSign(n, order, rejected) ==
    IF n.trade_status # "TRADE_SUCCESS" THEN "success"
    ELSE IF order.status = "none" THEN "success"
    ELSE IF rejected THEN "fail"
    ELSE IF order.status = "pending" \/ order.status = "cancelled" THEN "settle"
    ELSE "success"

\* the gates with cancelled orders taken as handled
GatePendingOnly(n, order, rejected) ==
    IF SignOf(n) # SignedText(n, MERCHANT_KEY) THEN "fail"
    ELSE IF n.trade_status # "TRADE_SUCCESS" THEN "success"
    ELSE IF order.status = "none" THEN "success"
    ELSE IF rejected THEN "fail"
    ELSE IF order.status = "pending" THEN "settle"
    ELSE "success"

\* the gates before the transaction: "fail" (400), "success" (the plain
\* acknowledgment) or "settle" (the transaction is entered)
Gate(n, order, rejected) ==
    IF SignOf(n) # SignedText(n, MERCHANT_KEY) THEN "fail"
    ELSE IF n.trade_status # "TRADE_SUCCESS" THEN "success"
    ELSE IF order.status = "none" THEN "success"
    ELSE IF rejected THEN "fail"
    ELSE IF order.status = "pending" \/ order.status = "cancelled" THEN "settle"
    ELSE "success"

SettleReceive(p, n) ==
    /\ p \in Settlers
    /\ proc[p].pc = "idle"
    /\ LET order == orders[n.out_trade_no]
           g == Gate(n, order, AmountMismatch(n.money, order.amount))
       IN  proc' = [proc EXCEPT ![p] =
                    IF g = "settle"
                    THEN [IdleProc EXCEPT !.pc = "settle_own", !.orderId = n.out_trade_no,
                                          !.productId = order.productId, !.txNow = now,
                                          !.n = n]
                    ELSE [IdleProc EXCEPT !.pc = "done", !.result = g, !.n = n]]
    /\ UNCHANGED <<now, db, tx>>

\* SET is_used = true, used_at = NOW(), reserved_order_id = NULL,
\* reserved_at = NULL
ConsumeWrite(c, oid) ==
    [c EXCEPT !.isUsed = TRUE, !.reservedOrderId = NoOrder, !.reservedAt = NoTime,
              !.usedFor = oid]

\* the own hold matched only while it is not expired
OwnHoldMatchFresh(c, oid) ==
    /\ c.reservedOrderId = oid
    /\ ~c.isUsed
    /\ c.reservedAt >= now - HOLD_TTL

\* WHERE reserved_order_id = orderId AND COALESCE(is_used, false) = false
OwnHoldMatch(c, oid) == c.reservedOrderId = oid /\ ~c.isUsed

\* the first UPDATE of the transaction: the card the order holds
SettleOwn(p) ==
    /\ proc[p].pc = "settle_own"
    /\ ~CardsAltered(p)
    /\ LET oid == proc[p].orderId
           M == {u \in DOMAIN cards : OwnHoldMatch(CardView(p, u), oid)}
       IN  /\ \A u \in M : FreeOfOthers(cardLock[u], p)
           /\ cardNew' = [u \in DOMAIN cards |->
                  IF u \in M THEN ConsumeWrite(CardView(p, u), oid) ELSE cardNew[u]]
           /\ cardLock' = [u \in DOMAIN cards |-> IF u \in M THEN p ELSE cardLock[u]]
           /\ \E k \in (IF M = {} THEN {NoKey} ELSE {CardKey(u) : u \in M}) :
                 proc' = [proc EXCEPT ![p].cardKey = k,
                             ![p].pc = IF k = NoKey THEN "settle_fallback" ELSE "settle_order"]
    /\ UNCHANGED <<now, db, orderNew, orderLock>>

\* the transaction without the second UPDATE
SettleNoFallback(p) ==
    /\ proc[p].pc = "settle_fallback"
    /\ proc' = [proc EXCEPT ![p].pc = "settle_order"]
    /\ UNCHANGED <<now, db, tx>>

\* the second UPDATE: any card of the product the sub-select returns
SettleFallback(p) ==
    /\ proc[p].pc = "settle_fallback"
    /\ ~CardsAltered(p)
    /\ LET E == Claimable(p, proc[p].productId, proc[p].txNow)
       IN  IF E = {}
           THEN /\ proc' = [proc EXCEPT ![p].pc = "settle_order"]
                /\ UNCHANGED tx
           ELSE \E u \in E :
                /\ cardNew' = [cardNew EXCEPT ![u] = ConsumeWrite(cards[u], proc[p].orderId)]
                /\ cardLock' = [cardLock EXCEPT ![u] = p]
                /\ proc' = [proc EXCEPT ![p].pc = "settle_order", ![p].cardKey = CardKey(u)]
                /\ UNCHANGED <<orderNew, orderLock>>
    /\ UNCHANGED <<now, db>>

\* the UPDATE of the order only when a card was consumed
OrderWriteDeliveredOnly(row, k) ==
    IF k # NoKey
    THEN [row EXCEPT !.status = "delivered", !.cardKey = k]
    ELSE row

\* tx.update(orders).set(...).where(eq(orders.orderId, orderId))
OrderWrite(row, k) ==
    IF k # NoKey
    THEN [row EXCEPT !.status = "delivered", !.cardKey = k]
    ELSE [row EXCEPT !.status = "paid"]

\* the UPDATE of the order and the commit of the transaction
SettleOrder(p) ==
    /\ proc[p].pc = "settle_order"
    /\ LET oid == proc[p].orderId
       IN  /\ FreeOfOthers(orderLock[oid], p)
           /\ cards' = [u \in DOMAIN cards |-> IF cardLock[u] = p THEN cardNew[u] ELSE cards[u]]
           /\ cardLock' = [u \in DOMAIN cards |-> IF cardLock[u] = p THEN NoProc ELSE cardLock[u]]
           /\ orders' = [orders EXCEPT ![oid] = OrderWrite(orders[oid], proc[p].cardKey)]
           /\ orderNew' = [orderNew EXCEPT ![oid] = OrderWrite(orders[oid], proc[p].cardKey)]
           /\ proc' = [proc EXCEPT ![p] =
                 [IdleProc EXCEPT !.pc = "done", !.result = "success", !.orderId = oid,
                                  !.n = proc[p].n, !.cardKey = proc[p].cardKey]]
    /\ UNCHANGED <<now, products, cardNew, orderLock>>

\* ------------------------------------------------------------ deadlock
\* the transactions whose locks the next statement of p waits for
Blockers(p) ==
    LET pc == proc[p].pc
        altering ==
          IF pc \in {"stock", "reserve", "settle_own", "settle_fallback"}
          THEN {q \in Procs : proc[q].pc = "reap_release"}
          ELSE {}
        held ==
          IF pc = "reap_cancel"
          THEN {orderLock[o] : o \in {x \in OrderIds :
                    ExpiredMatch(x, orders[x], proc[p].filter, proc[p].txNow)}}
          ELSE IF pc = "reap_alter"
          THEN {q \in Procs : HoldsCards(q)}
          ELSE IF pc = "reap_release" /\ proc[p].todo # <<>>
          THEN {cardLock[u] : u \in {x \in DOMAIN cards :
                    ReleaseRow(x, CardView(p, x), Head(proc[p].todo)) # CardView(p, x)}}
          ELSE IF pc = "settle_own"
          THEN {cardLock[u] : u \in {x \in DOMAIN cards :
                    OwnHoldMatch(CardView(p, x), proc[p].orderId)}}
          ELSE IF pc = "settle_order"
          THEN {orderLock[proc[p].orderId]}
          ELSE {}
    IN  (held \cup altering) \ {NoProc, p}

RECURSIVE WaitsFor(_, _)
WaitsFor(S, n) ==
    IF n = 0 THEN S ELSE WaitsFor(S \cup UNION {Blockers(q) : q \in S}, n - 1)

Deadlocked(p) == p \in WaitsFor(Blockers(p), Cardinality(Procs))

\* The database ends a deadlock by failing the statement of one of the
\* waiting transactions; the error rolls the transaction back.  processNotify
\* lets it reach the handler (500), createOrder ignores the error of
\* cancelExpiredOrders, another caller of cancelExpiredOrders receives it.
DeadlockAbort(p) ==
    /\ Deadlocked(p)
    /\ Rollback(p)
    /\ proc' = [proc EXCEPT ![p] =
          IF p \in Buyers
          THEN [proc[p] EXCEPT !.pc = "stock", !.txNow = NoTime, !.todo = <<>>,
                               !.cancelled = {}, !.filter = NoFilter]
          ELSE [IdleProc EXCEPT !.pc = "done", !.result = "error", !.n = proc[p].n]]
    /\ UNCHANGED now

\* ------------------------------------------------------- specification
CreateOrderStep ==
    \/ \E p \in Buyers : \E productId \in ProductIds \cup {UnknownProduct} :
          \E userId \in Users : CreateOrderStart(p, productId, userId, NoEmail)
    \/ \E p \in Buyers : CreateOrderStock(p)
    \/ \E p \in Buyers : CreateOrderReserve(p)
    \/ \E p \in Buyers : CreateOrderInsert(p)

ReapStep ==
    \/ \E p \in Buyers \cup Reapers : ReapCancel(p)
    \/ \E p \in Buyers \cup Reapers : ReapAlter(p)
    \/ \E p \in Buyers \cup Reapers : ReapRelease(p)
    \/ \E p \in Buyers \cup Reapers : ReapCommit(p)

SettleStep ==
    \/ \E p \in Settlers : SettleOwn(p)
    \/ \E p \in Settlers : SettleFallback(p)
    \/ \E p \in Settlers : SettleOrder(p)
    \/ \E p \in Procs : DeadlockAbort(p)

\* Two checkouts and two gateway notifications of real payments.
Next ==
    \/ Tick
    \/ CreateOrderStep
    \/ ReapStep
    \/ \E p \in Settlers : \E n \in PaidNotifications : SettleReceive(p, n)
    \/ SettleStep

Spec == Init /\ [][Next]_vars

\* Two checkouts, one notification and a caller of cancelExpiredOrders.
InitReap == InitWith({"b1", "b2", "s1", "r1"}, NumUnits)

NextReap ==
    \/ Next
    \/ \E p \in Reapers : ReapStart(p, NoFilter)

SpecReap == InitReap /\ [][NextReap]_vars

\* Two checkouts for the last card, the notification of a real payment and
\* any notification.
InitGates == InitWith({"b1", "b2", "s1", "s2"}, 1)

NextGates ==
    \/ Tick
    \/ CreateOrderStep
    \/ ReapStep
    \/ \E n \in PaidNotifications : SettleReceive("s1", n)
    \/ \E n \in Notifications : SettleReceive("s2", n)
    \/ SettleStep

SpecGates == InitGates /\ [][NextGates]_vars

\* N checkouts at one instant T.  Each card is free, or was taken by an
\* earlier order: held for HOLD_TTL ("held"), for longer ("stale"), for
\* longer than PENDING_TTL by an order still pending ("overdue"), or
\* consumed by a delivered order ("used").
Histories == {"free", "held", "stale", "overdue", "used"}

HistoryAge(h) ==
    CASE h = "held" -> HOLD_TTL
      [] h = "stale" -> HOLD_TTL + 1
      [] h = "overdue" -> PENDING_TTL + 1
      [] OTHER -> HOLD_TTL + 1

RaceCard(h, o, T) ==
    CASE h = "free" -> FreeCard
      [] h = "used" -> ConsumeWrite(FreeCard, o)
      [] OTHER -> ReserveWrite(FreeCard, o, T - HistoryAge(h))

RaceOrder(h, u, T) ==
    CASE h = "free" -> NoRow
      [] h = "used" ->
           [status |-> "delivered", productId |-> "p1", amount |-> Price("p1"),
            userId |-> "alice", email |-> UserEmail("alice"), createdAt |-> T - HistoryAge(h), cardKey |-> CardKey(u)]
      [] OTHER ->
           [status |-> "pending", productId |-> "p1", amount |-> Price("p1"),
            userId |-> "alice", email |-> UserEmail("alice"), createdAt |-> T - HistoryAge(h), cardKey |-> NoKey]

InitRace ==
    /\ now = MaxTime
    /\ products = [x \in ProductIds |-> Product]
    /\ \E k \in 1..NumUnits : \E h \in [1..k -> Histories] :
          /\ cards = [u \in 1..k |-> RaceCard(h[u], u, now)]
          /\ cardNew = [u \in 1..k |-> RaceCard(h[u], u, now)]
          /\ cardLock = [u \in 1..k |-> NoProc]
          /\ orders = [o \in OrderIds |-> IF o <= k THEN RaceOrder(h[o], o, now) ELSE NoRow]
          /\ orderNew = [o \in OrderIds |-> IF o <= k THEN RaceOrder(h[o], o, now) ELSE NoRow]
    /\ orderLock = [o \in OrderIds |-> NoProc]
    /\ proc = [p \in Procs |-> IF p \in Buyers THEN IdleProc ELSE OffProc]

NextRace ==
    \/ CreateOrderStep
    \/ ReapStep

SpecRace == InitRace /\ [][NextRace]_vars

\* Checkouts of a product with a purchase limit, active or not, by a
\* logged-in user or a guest, after earlier orders of the product reached
\* any status (refunded is set by the admin).
Owners == {[userId |-> "alice", email |-> UserEmail("alice")],
           [userId |-> Guest, email |-> "a@x"],
           [userId |-> Guest, email |-> "z@x"]}

Statuses == {"pending", "cancelled", "paid", "delivered", "refunded"}

\* the card an earlier order of status st took
LimitCard(st, o, T) ==
    RaceCard(CASE st = "delivered" -> "used" [] st = "pending" -> "overdue"
               [] OTHER -> "free", o, T)

LimitOrder(st, who, u, T) ==
    [status |-> st, productId |-> "p1", amount |-> Price("p1"),
     userId |-> who.userId, email |-> who.email,
     createdAt |-> T - HistoryAge("overdue"),
     cardKey |-> IF st = "delivered" THEN CardKey(u) ELSE NoKey]

LimitDb ==
    /\ now = MaxTime
    /\ \E k \in 1..NumUnits : \E j \in 0..k :
       \E st \in [1..j -> Statuses] : \E who \in [1..j -> Owners] :
          /\ cards = [u \in 1..k |-> IF u <= j THEN LimitCard(st[u], u, now) ELSE FreeCard]
          /\ cardNew = [u \in 1..k |-> IF u <= j THEN LimitCard(st[u], u, now) ELSE FreeCard]
          /\ cardLock = [u \in 1..k |-> NoProc]
          /\ orders = [o \in OrderIds |->
                IF o <= j THEN LimitOrder(st[o], who[o], o, now) ELSE NoRow]
          /\ orderNew = [o \in OrderIds |->
                IF o <= j THEN LimitOrder(st[o], who[o], o, now) ELSE NoRow]
    /\ orderLock = [o \in OrderIds |-> NoProc]

InitLimit ==
    /\ LimitDb
    /\ \E limit \in 0..MaxLimit : \E active \in BOOLEAN :
          products = [x \in ProductIds |-> [purchaseLimit |-> limit, isActive |-> active]]
    /\ proc = [p \in Procs |-> IF p = "b1" THEN IdleProc ELSE OffProc]

NextLimit ==
    \/ \E p \in Buyers : \E userId \in Users \cup {Guest} :
          \E email \in {NoEmail, "a@x", "z@x"} : CreateOrderStart(p, "p1", userId, email)
    \/ \E p \in Buyers : CreateOrderStock(p)
    \/ \E p \in Buyers : CreateOrderLimit(p)
    \/ \E p \in Buyers : CreateOrderReserve(p)
    \/ \E p \in Buyers : CreateOrderInsert(p)
    \/ ReapStep

SpecLimit == InitLimit /\ [][NextLimit]_vars

\* One notification of any content and signature, for an order in any
\* status or for no order.
InitSign ==
    /\ LimitDb
    /\ products = [x \in ProductIds |-> Product]
    /\ proc = [p \in Procs |-> IF p = "s1" THEN IdleProc ELSE OffProc]

NextSign ==
    \/ \E p \in Settlers : \E n \in SignNotifications : SettleReceive(p, n)
    \/ \E p \in Settlers : SettleOwn(p)
    \/ \E p \in Settlers : SettleFallback(p)
    \/ \E p \in Settlers : SettleOrder(p)

SpecSign == InitSign /\ [][NextSign]_vars

\* A call of cancelExpiredOrders with any filter, a checkout and the
\* notification of a real payment, at one instant T, after earlier orders
\* of a user and of a guest took cards (Histories).
SweepOwners == {[userId |-> "alice", email |-> UserEmail("alice")],
                [userId |-> Guest, email |-> "z@x"]}

SweepOrder(h, who, u, T) ==
    IF h = "free" THEN NoRow
    ELSE [RaceOrder(h, u, T) EXCEPT !.userId = who.userId, !.email = who.email]

SweepFilters ==
    {[productId |-> x, userId |-> y, orderId |-> z] :
        x \in {""} \cup ProductIds \cup {UnknownProduct},
        y \in {""} \cup Users,
        z \in {NoOrder, 1}}

InitSweep ==
    /\ now = MaxTime
    /\ products = [x \in ProductIds |-> Product]
    /\ \E k \in 1..NumUnits : \E h \in [1..k -> Histories \ {"stale"}] :
       \E who \in [1..k -> SweepOwners] :
          /\ cards = [u \in 1..k |-> RaceCard(h[u], u, now)]
          /\ cardNew = [u \in 1..k |-> RaceCard(h[u], u, now)]
          /\ cardLock = [u \in 1..k |-> NoProc]
          /\ orders = [o \in OrderIds |->
                IF o <= k THEN SweepOrder(h[o], who[o], o, now) ELSE NoRow]
          /\ orderNew = [o \in OrderIds |->
                IF o <= k THEN SweepOrder(h[o], who[o], o, now) ELSE NoRow]
    /\ orderLock = [o \in OrderIds |-> NoProc]
    /\ proc = [p \in Procs |-> IF p \in {"b1", "s1", "r1"} THEN IdleProc ELSE OffProc]

NextSweep ==
    \/ \E p \in Reapers : \E f \in SweepFilters : ReapStart(p, f)
    \/ CreateOrderStep
    \/ ReapStep
    \/ \E p \in Settlers : \E n \in PaidNotifications : SettleReceive(p, n)
    \/ SettleStep

SpecSweep == InitSweep /\ [][NextSweep]_vars

\* A checkout, the notification of its payment, and cancelExpiredOrders
\* called again and again.  Every call in flight goes on (a request handler
\* and the database serve it), the calls of cancelExpiredOrders never stop
\* coming, and the database ends every deadlock.
ReapAgain(p) ==
    /\ p \in Reapers
    /\ proc[p].pc = "done"
    /\ proc' = [proc EXCEPT ![p] = IdleProc]
    /\ UNCHANGED <<now, db, tx>>

InitLive == InitWith({"b1", "s1", "r1"}, NumUnits)

NextLive ==
    \/ NextReap
    \/ \E p \in Reapers : ReapAgain(p)

\* the steps of a call of p in flight, and for the reaper the next call
LiveStep(p) ==
    \/ /\ p \in Buyers
       /\ \/ CreateOrderStock(p)
          \/ CreateOrderReserve(p)
          \/ CreateOrderInsert(p)
    \/ /\ p \in Buyers \cup Reapers
       /\ \/ ReapCancel(p)
          \/ ReapAlter(p)
          \/ ReapRelease(p)
          \/ ReapCommit(p)
    \/ /\ p \in Settlers
       /\ \/ SettleOwn(p)
          \/ SettleFallback(p)
          \/ SettleOrder(p)
    \/ DeadlockAbort(p)
    \/ ReapStart(p, NoFilter)
    \/ ReapAgain(p)

SpecLive ==
    InitLive /\ [][NextLive]_vars /\ \A p \in {"b1", "s1", "r1"} : WF_vars(LiveStep(p))

\* Two checkouts of one logged-in buyer for a product with a purchase limit,
\* and the notifications of their payments.
InitPay ==
    /\ now = 0
    /\ \E limit \in 1..MaxLimit :
          products = [x \in ProductIds |-> [Product EXCEPT !.purchaseLimit = limit]]
    /\ \E k \in 1..NumUnits :
          /\ cards = [u \in 1..k |-> FreeCard]
          /\ cardNew = [u \in 1..k |-> FreeCard]
          /\ cardLock = [u \in 1..k |-> NoProc]
    /\ orders = [o \in OrderIds |-> NoRow]
    /\ orderNew = [o \in OrderIds |-> NoRow]
    /\ orderLock = [o \in OrderIds |-> NoProc]
    /\ proc = [p \in Procs |-> IF p \in {"b1", "b2", "s1", "s2"} THEN IdleProc ELSE OffProc]

NextPay ==
    \/ Next
    \/ \E p \in Buyers : CreateOrderLimit(p)

SpecPay == InitPay /\ [][NextPay]_vars

\* =================================================================
\* Properties
\* =================================================================
Min(a, b) == IF a < b THEN a ELSE b

\* the cards consumed by the settlement of order o
UsedFor(o) == {u \in DOMAIN cards : cards[u].isUsed /\ cards[u].usedFor = o}

\* the unconsumed cards whose hold names order o
HeldBy(o) == {u \in DOMAIN cards : cards[u].reservedOrderId = o /\ ~cards[u].isUsed}

\* the cards a step consumes
NewlyUsed == {u \in DOMAIN cards : ~cards[u].isUsed /\ cards'[u].isUsed}

\* ---- C1
RaceDone == \A b \in Buyers : proc[b].pc = "done"
RaceCalls == {b \in Buyers : proc[b].result # "productNotFound"}
RaceWon == {b \in Buyers : proc[b].result = "ok"}
\* the cards that were eligible when the checkouts started: those still
\* eligible and those the new orders hold (the clock stands still)
RaceEligible ==
    {u \in DOMAIN cards :
        \/ Eligible(u, cards[u], "p1", now)
        \/ \E b \in RaceWon : u \in HeldBy(proc[b].orderId)}

\* C1: of N concurrent createOrder calls on a product with K eligible cards,
\* exactly min(N, K) succeed (K when K < N); each successful order is pending
\* and holds one card, stamped now, that no other order holds; the other
\* calls fail.
C1_ExactlyKReserve ==
    RaceDone =>
      /\ Cardinality(RaceWon) = Min(Cardinality(RaceCalls), Cardinality(RaceEligible))
      /\ \A b \in RaceWon :
            /\ orders[proc[b].orderId].status = "pending"
            /\ Cardinality(HeldBy(proc[b].orderId)) = 1
            /\ \A u \in HeldBy(proc[b].orderId) : cards[u].reservedAt = now
      /\ \A b, c \in RaceWon : b # c => proc[b].orderId # proc[c].orderId
      /\ \A b \in RaceCalls \ RaceWon : proc[b].result \in {"outOfStock", "stockLocked"}

C1_Witness ==
    /\ RaceDone
    /\ Cardinality(RaceCalls) = 3
    /\ Cardinality(RaceEligible) = 2
    /\ Cardinality(RaceWon) = 2
    /\ \E b \in Buyers : proc[b].result = "stockLocked"

\* ---- C2
\* settle call s ran the settlement transaction of order o to its commit
SettledBy(s, o) ==
    proc[s].pc = "done" /\ proc[s].result = "success" /\ proc[s].orderId = o

\* C2: when the two settle calls for one order both ran the transaction (each
\* read the order before the other committed) and a card was consumed for
\* the order, the order is delivered, one card in all was consumed for it
\* and the order's card key is that card's payload.
C2_DuplicateSettleDeliversOnce ==
    \A o \in OrderIds :
      ((\A s \in Settlers : SettledBy(s, o)) /\ UsedFor(o) # {}) =>
        /\ orders[o].status = "delivered"
        /\ Cardinality(UsedFor(o)) = 1
        /\ \A u \in UsedFor(o) : orders[o].cardKey = CardKey(u)

\* ---- C3
DeliveredWith(u) ==
    {o \in OrderIds : orders[o].status = "delivered" /\ orders[o].cardKey = CardKey(u)}

\* C3: no card is the card key of two orders, every consumed card is the
\* card key of exactly one order, a delivered one, and there are as many
\* consumed cards as delivered orders.
C3_ConsumedIffDelivered ==
    /\ \A u \in DOMAIN cards :
          Cardinality({o \in OrderIds : orders[o].cardKey = CardKey(u)}) <= 1
    /\ \A u \in DOMAIN cards : cards[u].isUsed => Cardinality(DeliveredWith(u)) = 1
    /\ Cardinality({u \in DOMAIN cards : cards[u].isUsed})
         = Cardinality({o \in OrderIds : orders[o].status = "delivered"})

\* ---- C4
\* C4: a settle call with a valid success notification for an order that is
\* already paid or delivered returns the acknowledgment and changes nothing;
\* a settle call that commits on a pending or cancelled order changes that
\* order alone: to delivered with exactly one card consumed for it, or to
\* paid with no card consumed.
C4_SecondSettleIsNoOp ==
    [][\A s \in Settlers :
        /\ (proc[s].pc = "idle" /\ proc'[s].pc # "idle"
              /\ orders[proc'[s].n.out_trade_no].status \in {"paid", "delivered"})
           => /\ proc'[s].pc = "done"
              /\ proc'[s].result = "success"
              /\ UNCHANGED <<db, tx>>
        /\ (proc[s].pc = "settle_order" /\ proc'[s].pc = "done"
              /\ proc'[s].result = "success"
              /\ orders[proc[s].orderId].status \in {"pending", "cancelled"})
           => LET o == proc[s].orderId
              IN  /\ \A x \in OrderIds \ {o} : orders'[x] = orders[x]
                  /\ \A u \in DOMAIN cards \ NewlyUsed : cards'[u] = cards[u]
                  /\ \/ /\ orders'[o].status = "delivered"
                        /\ Cardinality(NewlyUsed) = 1
                        /\ \A u \in NewlyUsed :
                              /\ cards'[u].usedFor = o
                              /\ orders'[o].cardKey = CardKey(u)
                     \/ /\ orders'[o].status = "paid"
                        /\ NewlyUsed = {}
      ]_vars

\* a settle call delivered order o and a later one was acknowledged
C4_Witness ==
    \E o \in OrderIds : \E s, t \in Settlers :
      /\ SettledBy(s, o)
      /\ Cardinality(UsedFor(o)) = 1
      /\ orders[o].status = "delivered"
      /\ proc[t].pc = "done" /\ proc[t].result = "success"
      /\ proc[t].orderId = NoOrder /\ proc[t].n = proc[s].n

\* ---- C5
\* C5: a success notification whose amount differs from the amount of the
\* order by more than the epsilon is answered "fail" and changes no row,
\* whatever the state of the order and whether or not its signature is
\* the merchant's.
C5_AmountTamperRejected ==
    [][\A s \in Settlers :
        (/\ proc[s].pc = "idle" /\ proc'[s].pc # "idle"
         /\ proc'[s].n.trade_status = "TRADE_SUCCESS"
         /\ orders[proc'[s].n.out_trade_no].status # "none"
         /\ proc'[s].n.money # NaN
         /\ Abs(proc'[s].n.money - orders[proc'[s].n.out_trade_no].amount) > EPSILON)
        => /\ proc'[s].pc = "done"
           /\ proc'[s].result = "fail"
           /\ UNCHANGED <<db, tx>>
      ]_vars

\* a lower amount under the merchant's signature was refused for an order
\* in each state
C5_WitnessIn(st) ==
    \E s \in Settlers :
      /\ proc[s].pc = "done" /\ proc[s].result = "fail"
      /\ proc[s].n.sign = "merchant" /\ proc[s].n.trade_status = "TRADE_SUCCESS"
      /\ proc[s].n.money = Price("p1") - 2 * EPSILON
      /\ orders[proc[s].n.out_trade_no].status = st

C5_Witness == C5_WitnessIn("pending")

FallbackFindsNone(s) ==
    /\ proc[s].pc = "settle_fallback"
    /\ proc'[s].pc = "settle_order"
    /\ proc'[s].cardKey = NoKey

\* C7 as stated: when the settlement of a pending or cancelled order finds
\* no card to claim (the order will be set to paid), no unconsumed card is
\* held by the order and no card of the product is free or carries a hold
\* expired on the clock of the transaction.
C7_PaidOnlyWithoutStock ==
    [][\A s \in Settlers :
        (FallbackFindsNone(s)
           /\ orders[proc[s].orderId].status \in {"pending", "cancelled"})
        => /\ HeldBy(proc[s].orderId) = {}
           /\ \A u \in DOMAIN cards :
                 ~Eligible(u, cards[u], proc[s].productId, proc[s].txNow)
      ]_vars

\* C7 amended: when the settlement finds no card to claim, no unconsumed
\* card is held by the order and every card of the product that is free or
\* carries a hold expired at the start of the transaction is locked by
\* another transaction in flight; the commit sets the order to paid and
\* consumes nothing in that case, and to delivered with the key of the one
\* card it consumes in every other case.
C7_PaidOnlyWhenNoneClaimable ==
    [][\A s \in Settlers :
        /\ FallbackFindsNone(s)
           => /\ HeldBy(proc[s].orderId) = {}
              /\ \A u \in DOMAIN cards :
                    Eligible(u, cards[u], proc[s].productId, proc[s].txNow)
                      => cardLock[u] \in Procs \ {s}
        /\ (proc[s].pc = "settle_order" /\ proc'[s].pc = "done"
              /\ proc'[s].result = "success")
           => IF proc[s].cardKey = NoKey
              THEN /\ orders'[proc[s].orderId].status = "paid"
                   /\ NewlyUsed = {}
              ELSE /\ orders'[proc[s].orderId].status = "delivered"
                   /\ orders'[proc[s].orderId].cardKey = proc[s].cardKey
                   /\ NewlyUsed = {u \in DOMAIN cards : CardKey(u) = proc[s].cardKey}
      ]_vars

\* the settlement of an order that lost its card found none to claim
\* while a free card of the product was locked by a checkout in flight
C7_Witness ==
    \E s \in Settlers : \E u \in DOMAIN cards :
      /\ proc[s].pc = "settle_order"
      /\ proc[s].cardKey = NoKey
      /\ orders[proc[s].orderId].status \in {"pending", "cancelled"}
      /\ Eligible(u, cards[u], proc[s].productId, proc[s].txNow)
      /\ cardLock[u] \in Buyers

\* ---- C8
\* an unconsumed card with a hold of age at most HOLD_TTL
FreshHold(c) ==
    /\ ~c.isUsed
    /\ c.reservedOrderId # NoOrder
    /\ c.reservedAt # NoTime
    /\ now - c.reservedAt <= HOLD_TTL

\* C8: a card with a hold that is not expired is left as it is by every
\* step, or consumed by the settlement of the order its hold names; no
\* other transaction has a pending write on it.
C8_FreshHoldIsExclusive ==
    [][\A u \in DOMAIN cards :
         FreshHold(cards[u]) =>
           /\ cards'[u] \in {cards[u], ConsumeWrite(cards[u], cards[u].reservedOrderId)}
           /\ cardNew'[u] \in {cards[u], ConsumeWrite(cards[u], cards[u].reservedOrderId)}
      ]_vars

\* a card is held, the hold is not expired, and the checkout of another
\* buyer found no stock while the settlement of another order found no card
C8_Witness ==
    \E u \in DOMAIN cards :
      /\ FreshHold(cards[u])
      /\ \E b \in Buyers : proc[b].pc = "done" /\ proc[b].result = "outOfStock"

\* ---- C9
\* C9: a settlement that commits while an unconsumed card is held by its
\* order consumes that card and no other and delivers its payload, whatever
\* the age of the hold.
C9_OwnHoldIsFinalized ==
    [][\A s \in Settlers :
        (proc[s].pc = "settle_order" /\ proc'[s].pc = "done"
           /\ proc'[s].result = "success" /\ HeldBy(proc[s].orderId) # {})
        => /\ NewlyUsed = HeldBy(proc[s].orderId)
           /\ Cardinality(NewlyUsed) = 1
           /\ orders'[proc[s].orderId].status = "delivered"
           /\ \A u \in NewlyUsed : orders'[proc[s].orderId].cardKey = CardKey(u)
      ]_vars

\* the settlement has consumed the card its order holds, the hold being
\* older than HOLD_TTL, while another card of the product is free
C9_Witness ==
    \E s \in Settlers : \E u, v \in DOMAIN cards :
      /\ proc[s].pc = "settle_order"
      /\ cardLock[u] = s
      /\ cards[u].reservedOrderId = proc[s].orderId
      /\ now - cards[u].reservedAt > HOLD_TTL
      /\ cardNew[u].isUsed
      /\ v # u /\ cards[v] = FreeCard /\ cardLock[v] = NoProc

\* ---- C10
\* C10: no step changes a delivered order.
C10_DeliveredIsTerminal ==
    [][\A o \in OrderIds : orders[o].status = "delivered" => orders'[o] = orders[o]]_vars

\* ---- C11
\* order o is pending, holds no card, and every card is unconsumed and held
\* by another order: the card o reserved was reserved again after its hold
\* expired
Stolen(o) ==
    /\ orders[o].status = "pending"
    /\ HeldBy(o) = {}
    /\ \A u \in DOMAIN cards :
          /\ ~cards[u].isUsed
          /\ cards[u].reservedOrderId \notin {NoOrder, o}
          /\ cards[u].reservedAt > orders[o].createdAt

\* C11 as stated: the notification of a real payment for an order whose
\* only card was reserved again by another order is rejected, and no step
\* but the cancellation changes the order.
C11_StolenHoldRejected ==
    [][/\ \A s \in Settlers :
            (proc[s].pc = "idle" /\ proc'[s].pc # "idle"
               /\ proc'[s].n \in PaidNotifications
               /\ Stolen(proc'[s].n.out_trade_no))
            => /\ proc'[s].pc = "done"
               /\ proc'[s].result = "fail"
       /\ \A o \in OrderIds :
            Stolen(o) => \/ orders'[o] = orders[o]
                         \/ orders'[o].status = "cancelled"
      ]_vars

\* C11 amended: the notification of a real payment for such an order enters
\* the transaction; the claim of another card takes none while every card
\* carries a hold of another order that was not expired at the start of the
\* transaction; the commit of a transaction that took no card sets the
\* pending order to paid, returns success and changes no card.
C11_StolenHoldSettlesPaid ==
    [][\A s \in Settlers :
        /\ (proc[s].pc = "idle" /\ proc'[s].pc # "idle"
              /\ proc'[s].n \in PaidNotifications
              /\ Stolen(proc'[s].n.out_trade_no))
           => /\ proc'[s].pc = "settle_own"
              /\ proc'[s].orderId = proc'[s].n.out_trade_no
        /\ (proc[s].pc = "settle_fallback" /\ proc'[s].pc # "settle_fallback"
              /\ \A u \in DOMAIN cards :
                    /\ ~cards[u].isUsed
                    /\ cards[u].reservedOrderId \notin {NoOrder, proc[s].orderId}
                    /\ cards[u].reservedAt >= proc[s].txNow - HOLD_TTL)
           => /\ proc'[s].pc = "settle_order"
              /\ proc'[s].cardKey = NoKey
              /\ UNCHANGED <<db, tx>>
        /\ (proc[s].pc = "settle_order" /\ proc'[s].pc = "done"
              /\ proc[s].cardKey = NoKey
              /\ orders[proc[s].orderId].status = "pending")
           => /\ proc'[s].result = "success"
              /\ orders'[proc[s].orderId].status = "paid"
              /\ orders'[proc[s].orderId].cardKey = NoKey
              /\ cards' = cards
      ]_vars

\* the settlement of a pending order has set it to paid and returned
\* success while every card is held by a later pending order
C11_Witness ==
    \E s \in Settlers : \E o \in OrderIds :
      /\ proc[s].pc = "done"
      /\ proc[s].result = "success"
      /\ proc[s].orderId = o
      /\ proc[s].cardKey = NoKey
      /\ orders[o].status = "paid"
      /\ DOMAIN cards # {}
      /\ \A u \in DOMAIN cards :
            /\ ~cards[u].isUsed
            /\ cards[u].reservedOrderId \notin {NoOrder, o}
            /\ orders[cards[u].reservedOrderId].status = "pending"
            /\ cards[u].reservedAt > orders[o].createdAt

\* ---- C12
\* the paid and delivered orders of the product that carry the user id of
\* buyer b or the email b uses
BuyerCount(b) ==
    Cardinality({o \in OrderIds :
        /\ orders[o].productId = proc[b].productId
        /\ orders[o].status \in {"paid", "delivered"}
        /\ \/ (proc[b].userId # Guest /\ orders[o].userId = proc[b].userId)
           \/ (currentUserEmail(b) # NoEmail /\ orders[o].email = currentUserEmail(b))})

C14_CancelledOrderIsSettled ==
    [][\A s \in Settlers :
        /\ (proc[s].pc = "idle" /\ proc'[s].pc # "idle"
              /\ proc'[s].n \in PaidNotifications
              /\ orders[proc'[s].n.out_trade_no].status = "cancelled")
           => /\ proc'[s].pc = "settle_own"
              /\ proc'[s].orderId = proc'[s].n.out_trade_no
        /\ (proc[s].pc = "settle_fallback" /\ proc'[s].pc = "settle_order"
              /\ orders[proc[s].orderId].status = "cancelled"
              /\ \E u \in DOMAIN cards :
                    /\ cardLock[u] = NoProc
                    /\ ~cards[u].isUsed
                    /\ \/ cards[u].reservedAt = NoTime
                       \/ proc[s].txNow - cards[u].reservedAt > HOLD_TTL)
           => proc'[s].cardKey # NoKey
        /\ (proc[s].pc = "settle_order" /\ proc'[s].pc = "done"
              /\ proc'[s].result # "error"
              /\ orders[proc[s].orderId].status = "cancelled")
           => /\ proc'[s].result = "success"
              /\ IF proc[s].cardKey # NoKey
                 THEN /\ orders'[proc[s].orderId].status = "delivered"
                      /\ orders'[proc[s].orderId].cardKey = proc[s].cardKey
                      /\ \E u \in NewlyUsed : CardKey(u) = proc[s].cardKey
                 ELSE /\ orders'[proc[s].orderId].status = "paid"
                      /\ NewlyUsed = {}
      ]_vars

\* cancelExpiredOrders returned an order and freed its card; the settlement
\* of that order, cancelled, has claimed a card and is about to deliver it
C14_Witness ==
    \E s \in Settlers : \E r \in Reapers :
      /\ proc[r].pc = "done"
      /\ proc[s].orderId \in proc[r].cancelled
      /\ orders[proc[s].orderId].status = "cancelled"
      /\ proc[s].pc = "settle_order"
      /\ proc[s].cardKey # NoKey

\* ---- C15
\* order o is pending and older than PENDING_TTL
Overdue(o) ==
    /\ orders[o].status = "pending"
    /\ now - orders[o].createdAt > PENDING_TTL

Received(s) == proc[s].pc = "idle" /\ proc'[s].pc # "idle"

\* C16 as stated: a notification whose signature differs from the one
\* computed over every field other than the signature fields is answered
\* with the failure and changes no row.
C16_BadSignatureRejectedAllFields ==
    [][\A s \in Settlers :
        (Received(s) /\ SignOf(proc'[s].n) # AllFieldsText(proc'[s].n, MERCHANT_KEY))
        => /\ proc'[s].pc = "done"
           /\ proc'[s].result = "fail"
           /\ UNCHANGED <<db, tx>>
      ]_vars

\* C16 amended: a notification whose signature differs from the one
\* computed over the fields other than the signature fields that are not
\* empty is answered with the failure and changes no row, whatever its
\* outcome, order and amount.
C16_BadSignatureRejected ==
    [][\A s \in Settlers :
        (Received(s) /\ SignOf(proc'[s].n) # SignedText(proc'[s].n, MERCHANT_KEY))
        => /\ proc'[s].pc = "done"
           /\ proc'[s].result = "fail"
           /\ UNCHANGED <<db, tx>>
      ]_vars

\* a success notification of the right amount for a pending order, with an
\* empty param and signed over every field, was answered with the failure
C16_Witness ==
    \E s \in Settlers :
      /\ proc[s].pc = "done"
      /\ proc[s].result = "fail"
      /\ proc[s].n.sign = "full"
      /\ proc[s].n.param = ""
      /\ proc[s].n.trade_status = "TRADE_SUCCESS"
      /\ orders[proc[s].n.out_trade_no].status = "pending"
      /\ proc[s].n.money = orders[proc[s].n.out_trade_no].amount

\* ---- C17
\* C17: a success notification with the right signature that names an order
\* that does not exist is not answered with the success acknowledgment, and
\* changes no row.
C17_MissingOrderRejected ==
    [][\A s \in Settlers :
        (Received(s)
           /\ SignOf(proc'[s].n) = SignedText(proc'[s].n, MERCHANT_KEY)
           /\ proc'[s].n.trade_status = "TRADE_SUCCESS"
           /\ orders[proc'[s].n.out_trade_no].status = "none")
        => /\ proc'[s].pc = "done"
           /\ proc'[s].result # "success"
           /\ UNCHANGED <<db, tx>>
      ]_vars

\* ---- C18
\* C18: createOrder for a product that is not active returns the error of
\* a product that does not exist and changes nothing.
C18_InactiveProductRejected ==
    [][\A b \in Buyers :
        (proc[b].pc = "idle" /\ proc'[b].pc # "idle"
           /\ proc'[b].productId \in ProductIds
           /\ ~products[proc'[b].productId].isActive)
        => /\ proc'[b].pc = "done"
           /\ proc'[b].result = "productNotFound"
           /\ UNCHANGED <<db, tx>>
      ]_vars

\* ---- C19
\* C19: createOrder that fails because the claim finds no card returns the
\* out-of-stock error, as the stock count does.
C19_ClaimLossIsOutOfStock ==
    [][\A b \in Buyers :
        (proc[b].pc \in {"stock", "reserve"} /\ proc'[b].pc = "done")
        => proc'[b].result = "outOfStock"
      ]_vars

\* ---- C13
\* the orders the call of p must cancel: pending, created more than
\* PENDING_TTL before the start of the call, and equal to the filter in
\* every field the filter gives
MustCancel(p) ==
    {o \in OrderIds :
        /\ orders[o].status = "pending"
        /\ proc[p].txNow - orders[o].createdAt > PENDING_TTL
        /\ proc[p].filter.productId \in {"", orders[o].productId}
        /\ proc[p].filter.userId \in {"", orders[o].userId}
        /\ proc[p].filter.orderId \in {NoOrder, o}}

\* C13: the UPDATE of cancelExpiredOrders selects exactly the pending orders
\* older than PENDING_TTL that match every field of the filter; until the
\* commit no committed row changes; the commit sets exactly those orders to
\* cancelled, clears the hold of exactly the unconsumed cards held by them,
\* changes nothing else, and the call returns exactly their ids.
C13_ReapCancelsExactlyMatches ==
    [][\A p \in Buyers \cup Reapers :
        /\ (proc[p].pc = "reap_cancel" /\ proc'[p].pc = "reap_alter")
           => /\ proc'[p].cancelled = MustCancel(p)
              /\ MustCancel(p) # {}
              /\ UNCHANGED db
        /\ (proc[p].pc = "reap_cancel" /\ proc'[p] = AfterReap(p, "ok"))
           => /\ MustCancel(p) = {}
              /\ UNCHANGED <<db, tx>>
        /\ (proc[p].pc \in {"reap_alter", "reap_release"}
              /\ proc'[p].pc \in {"reap_alter", "reap_release"}
              /\ proc'[p] # proc[p])
           => UNCHANGED db
        /\ (proc[p].pc = "reap_release" /\ proc[p].todo = <<>>
              /\ proc'[p] = AfterReap(p, "ok"))
           => LET C == proc[p].cancelled
              IN  /\ \A o \in C : orders[o].status = "pending"
                  /\ orders' = [o \in OrderIds |->
                        IF o \in C THEN [orders[o] EXCEPT !.status = "cancelled"]
                        ELSE orders[o]]
                  /\ cards' = [u \in DOMAIN cards |->
                        IF cards[u].reservedOrderId \in C /\ ~cards[u].isUsed
                        THEN [cards[u] EXCEPT !.reservedOrderId = NoOrder,
                                              !.reservedAt = NoTime]
                        ELSE cards[u]]
                  /\ UNCHANGED products
                  /\ p \in Reapers => proc'[p].cancelled = C
      ]_vars

\* a call filtered by user returned the user's overdue order, whose card is
\* free again, while the overdue order of a guest is pending and holds its
\* card
C13_Witness ==
    \E r \in Reapers : \E o, g \in OrderIds : \E u \in DOMAIN cards :
      /\ proc[r].pc = "done"
      /\ proc[r].result = "ok"
      /\ proc[r].cancelled = {o}
      /\ orders[o].status = "cancelled"
      /\ orders[o].userId \in Users
      /\ HeldBy(o) = {}
      /\ orders[g].status = "pending"
      /\ orders[g].userId = Guest
      /\ now - orders[g].createdAt > PENDING_TTL
      /\ cards[u].reservedOrderId = g

\* ---- C20
\* notification n passes the gates of signature, outcome, order lookup and
\* amount
PassesGates(n) ==
    /\ SignOf(n) = SignedText(n, MERCHANT_KEY)
    /\ n.trade_status = "TRADE_SUCCESS"
    /\ orders[n.out_trade_no].status # "none"
    /\ n.money # NaN
    /\ Abs(n.money - orders[n.out_trade_no].amount) <= EPSILON

\* C20: a call that received a notification passing the four gates ends
\* with the success acknowledgment: at once when the order is paid or
\* delivered, and at the end of the transaction otherwise.
C20_GatesPassedIsAcknowledged ==
    [][\A s \in Settlers :
        /\ (Received(s) /\ PassesGates(proc'[s].n))
           => \/ proc'[s].pc = "settle_own"
              \/ proc'[s].pc = "done" /\ proc'[s].result = "success"
        /\ (proc[s].pc \in {"settle_own", "settle_fallback", "settle_order"}
              /\ proc'[s].pc = "done")
           => proc'[s].result = "success"
      ]_vars

\* ---- C21
\* C21: a consumed card carries no hold and is locked by no transaction, and
\* every step leaves it consumed, for the same order, without a hold.
C21_ConsumedIsFinal ==
    [][\A u \in DOMAIN cards :
         cards[u].isUsed =>
           /\ cards[u].reservedOrderId = NoOrder
           /\ cards[u].reservedAt = NoTime
           /\ cardLock[u] = NoProc
           /\ cards'[u].isUsed
           /\ cards'[u].usedFor = cards[u].usedFor
           /\ cards'[u].reservedOrderId = NoOrder
           /\ cards'[u].reservedAt = NoTime
           /\ cardLock'[u] = NoProc
      ]_vars

\* a card is consumed and a checkout, a settlement and a call of
\* cancelExpiredOrders that cancelled an order have all ended
C21_Witness ==
    \E u \in DOMAIN cards : \E b \in Buyers : \E s \in Settlers : \E r \in Reapers :
      /\ cards[u].isUsed
      /\ proc[b].pc = "done" /\ proc[b].result \in {"ok", "outOfStock"}
      /\ proc[s].pc = "done" /\ proc[s].result = "success"
      /\ proc[r].pc = "done" /\ proc[r].cancelled # {}

\* ---- C22
\* the results with which createOrder fails
Failures == {"productNotFound", "outOfStock", "limitExceeded", "stockLocked"}

\* C22: the step in which createOrder ends with success inserts one order,
\* pending, for the product, with its price, under an id no order had, and
\* commits one hold for that id, on a card that was not consumed, stamped
\* with the time of the transaction, leaving every other row as it was; the
\* step in which it ends with a failure changes no row and leaves no lock;
\* no step of the call before changes a committed row.
C22_CreateOrderAllOrNothing ==
    [][\A b \in Buyers :
        /\ (proc[b].pc # "done" /\ proc'[b].pc = "done" /\ proc'[b].result = "ok")
           => LET oid == proc'[b].orderId
                  H == {u \in DOMAIN cards : cards'[u].reservedOrderId = oid}
              IN  /\ orders[oid].status = "none"
                  /\ orders'[oid].status = "pending"
                  /\ orders'[oid].productId = proc[b].productId
                  /\ orders'[oid].amount = Price(proc[b].productId)
                  /\ orders'[oid].cardKey = NoKey
                  /\ \A o \in OrderIds \ {oid} : orders'[o] = orders[o]
                  /\ Cardinality(H) = 1
                  /\ \A u \in H : /\ ~cards'[u].isUsed
                                  /\ ~cards[u].isUsed
                                  /\ cards'[u].reservedAt = proc[b].txNow
                                  /\ CardProduct(u) = proc[b].productId
                  /\ \A u \in DOMAIN cards \ H : cards'[u] = cards[u]
                  /\ \A u \in DOMAIN cards : cardLock'[u] # b
        /\ (proc[b].pc # "done" /\ proc'[b].pc = "done" /\ proc'[b].result \in Failures)
           => /\ UNCHANGED db
              /\ \A u \in DOMAIN cards : cardLock'[u] # b /\ cardLock[u] # b
              /\ \A o \in OrderIds : orderLock'[o] # b
        /\ (proc[b].pc \in {"idle", "stock", "limit", "reserve"} /\ proc'[b] # proc[b])
           => UNCHANGED db
        /\ proc'[b].pc = "done" => proc'[b].result \in Failures \cup {"ok"}
      ]_vars

\* one checkout ended with success and one with the failure of the claim,
\* and the card is held by the order of the first
C22_Witness ==
    \E b, c \in Buyers : \E u \in DOMAIN cards :
      /\ proc[b].pc = "done" /\ proc[b].result = "ok"
      /\ proc[c].pc = "done" /\ proc[c].result = "stockLocked"
      /\ cards[u].reservedOrderId = proc[b].orderId
      /\ orders[proc[b].orderId].status = "pending"

\* ---- C23
\* settle call s holds the row of a card and waits for the row of its order,
\* locked by call r of cancelExpiredOrders, whose next statement on cards
\* waits for s
SettleReapDeadlock(s, r) ==
    /\ proc[s].pc = "settle_order"
    /\ \E u \in DOMAIN cards : cardLock[u] = s
    /\ orderLock[proc[s].orderId] = r
    /\ proc[r].pc \in {"reap_alter", "reap_release"}
    /\ s \in Blockers(r)

\* C23: in no state a settlement and a call of cancelExpiredOrders wait for
\* each other.
C23_SettleReapNeverDeadlock ==
    \A s \in Settlers : \A r \in Buyers \cup Reapers : ~SettleReapDeadlock(s, r)

\* ---- C24
\* C24: a step of a call of cancelExpiredOrders changes and locks no card
\* whose hold names an order the call did not cancel: such a card keeps its
\* order and its timestamp.
C24_ReleaseSparesOtherHolds ==
    [][\A p \in Buyers \cup Reapers : \A u \in DOMAIN cards :
        (/\ proc[p].pc \in {"reap_cancel", "reap_alter", "reap_release"}
         /\ proc'[p] # proc[p]
         /\ cards[u].reservedOrderId # NoOrder
         /\ cards[u].reservedOrderId \notin proc[p].cancelled)
        => /\ cards'[u] = cards[u]
           /\ cardNew'[u] = cardNew[u]
           /\ cardLock'[u] # p
      ]_vars

\* cancelExpiredOrders has cancelled the order that holds the only card and
\* waits to release it, while a checkout has claimed that card, its hold
\* expired, for a new order
C24_Witness ==
    \E r \in Reapers : \E b \in Buyers : \E u \in DOMAIN cards :
      /\ DOMAIN cards = {u}
      /\ proc[r].pc = "reap_alter"
      /\ cards[u].reservedOrderId \in proc[r].cancelled
      /\ proc[b].pc = "insert"
      /\ cardLock[u] = b
      /\ cardNew[u].reservedOrderId = proc[b].orderId

\* ---- C25
\* the paid and delivered orders of the product of call b with the user id
\* of b's session
CountedByUser(b) ==
    {o \in OrderIds : /\ orders[o].productId = proc[b].productId
                      /\ orders[o].status \in {"paid", "delivered"}
                      /\ proc[b].userId # Guest
                      /\ orders[o].userId = proc[b].userId}

\* the paid and delivered orders of the product with the email b uses
CountedByEmail(b) ==
    {o \in OrderIds : /\ orders[o].productId = proc[b].productId
                      /\ orders[o].status \in {"paid", "delivered"}
                      /\ currentUserEmail(b) # NoEmail
                      /\ orders[o].email = currentUserEmail(b)}

\* C25: the purchase-limit check returns the limit error exactly when the
\* orders counted by user id together with those counted by email reach
\* the limit; a logged-in buyer with L orders under the user id receives it
\* whatever email the call gives, and for a logged-in buyer the check is
\* never skipped.
C25_LimitCountsUserIdOrEmail ==
    [][\A b \in Buyers :
        LET L == products[proc[b].productId].purchaseLimit
        IN  /\ (proc[b].pc = "limit" /\ proc'[b].pc # "limit")
               => /\ (proc'[b].result = "limitExceeded")
                       <=> (Cardinality(CountedByUser(b) \cup CountedByEmail(b)) >= L)
                  /\ Cardinality(CountedByUser(b)) >= L
                       => proc'[b].result = "limitExceeded"
            /\ (proc[b].pc = "stock" /\ proc'[b].pc = "reserve")
               => (L = 0 \/ (proc[b].userId = Guest /\ proc[b].email = NoEmail))
      ]_vars

\* a logged-in buyer who gave another email than the one of the orders
\* received the limit error: the orders under that email are fewer than
\* the limit, those under the user id reach it
C25_Witness ==
    \E b \in Buyers :
      /\ proc[b].pc = "done"
      /\ proc[b].result = "limitExceeded"
      /\ proc[b].userId \in Users
      /\ proc[b].email \notin {NoEmail, UserEmail(proc[b].userId)}
      /\ Cardinality(CountedByEmail(b)) < products[proc[b].productId].purchaseLimit
      /\ Cardinality(CountedByUser(b)) >= products[proc[b].productId].purchaseLimit

\* ---- C26
\* C26: for every user and every product with a purchase limit L > 0, at
\* most L orders of the user for the product are paid or delivered.
C26_PaidOrdersWithinLimit ==
    \A who \in Users : \A x \in ProductIds :
        products[x].purchaseLimit > 0 =>
            Cardinality({o \in OrderIds : /\ orders[o].productId = x
                                          /\ orders[o].userId = who
                                          /\ orders[o].status \in {"paid", "delivered"}})
              <= products[x].purchaseLimit

\* ---- C27
\* C27: a success notification with the right signature whose amount is
\* missing or not a number, for an order that exists, is answered with the
\* failure and starts no settlement.
C27_NoAmountNeverSettles ==
    [][\A s \in Settlers :
        (Received(s)
           /\ SignOf(proc'[s].n) = SignedText(proc'[s].n, MERCHANT_KEY)
           /\ proc'[s].n.trade_status = "TRADE_SUCCESS"
           /\ proc'[s].n.money = NaN
           /\ orders[proc'[s].n.out_trade_no].status # "none")
        => /\ proc'[s].pc = "done"
           /\ proc'[s].result = "fail"
           /\ UNCHANGED <<db, tx>>
      ]_vars

\* ---- C28
\* C28: an order carries a card key exactly when it is delivered.
C28_CardKeyIffDelivered ==
    \A o \in OrderIds : (orders[o].cardKey # NoKey) <=> (orders[o].status = "delivered")

\* ---- C29
\* C29: no order id is named by the hold of more than one card, in the
\* committed rows and in the rows as any transaction sees them; the first
\* UPDATE of a settlement writes at most one card.
C29_OneHoldPerOrder ==
    [][/\ \A o \in OrderIds :
            /\ Cardinality({u \in DOMAIN cards : cards[u].reservedOrderId = o}) <= 1
            /\ \A p \in Procs :
                  Cardinality({u \in DOMAIN cards : CardView(p, u).reservedOrderId = o}) <= 1
       /\ \A s \in Settlers :
            (proc[s].pc = "settle_own" /\ proc'[s].pc # "settle_own")
            => Cardinality({u \in DOMAIN cards : cardNew'[u] # cardNew[u]}) <= 1
      ]_vars

\* two orders hold a card each and the settlement of one has consumed its
\* card in its transaction
C29_Witness ==
    \E s \in Settlers : \E o \in OrderIds : \E u \in DOMAIN cards :
      /\ proc[s].pc = "settle_order"
      /\ cardLock[u] = s
      /\ cardNew[u].isUsed
      /\ HeldBy(proc[s].orderId) = {u}
      /\ o # proc[s].orderId
      /\ HeldBy(o) # {}

\* ---- C30
\* C30: when a call of cancelExpiredOrders cancels orders, every unconsumed
\* card held by one of them carries the timestamp of the order's creation,
\* older than PENDING_TTL and so than HOLD_TTL at the time of the call; the
\* commit of the release leaves every card as eligible or not, at the time
\* of the call and at every later time, as it was before.
C30_ReleasedHoldsWereExpired ==
    [][\A p \in Buyers \cup Reapers :
        /\ (proc[p].pc = "reap_cancel" /\ proc'[p].pc = "reap_alter")
           => \A o \in proc'[p].cancelled : \A u \in HeldBy(o) :
                 /\ cards[u].reservedAt = orders[o].createdAt
                 /\ proc[p].txNow - cards[u].reservedAt > PENDING_TTL
                 /\ proc[p].txNow - cards[u].reservedAt > HOLD_TTL
        /\ (proc[p].pc = "reap_release" /\ proc[p].todo = <<>>
              /\ proc'[p] = AfterReap(p, "ok"))
           => \A u \in DOMAIN cards : \A t \in Instants :
                 t >= proc[p].txNow =>
                    (Eligible(u, cards[u], CardProduct(u), t)
                       <=> Eligible(u, cards'[u], CardProduct(u), t))
      ]_vars

\* a call of cancelExpiredOrders is about to commit the release of a card
\* held by an order it cancelled
C30_Witness ==
    \E r \in Buyers \cup Reapers : \E u \in DOMAIN cards :
      /\ proc[r].pc = "reap_release"
      /\ proc[r].todo = <<>>
      /\ cardLock[u] = r
      /\ cards[u].reservedOrderId \in proc[r].cancelled
      /\ cardNew[u].reservedOrderId = NoOrder
      /\ cardNew[u].reservedAt = NoTime

====
